---- MODULE Spec2Model ----
(***************************************************************************)
(* srclib-bash, the `graph` command (graph.go): GraphCmd.Execute,          *)
(* graphUnits, graphFile, makeRef, makeDef, makeCommandRef and the         *)
(* manPages table, together with the path helper relPath (util).           *)
(*                                                                         *)
(* Representation choices                                                  *)
(*  - A script is the sequence of tokens the scanner returns for it.  An   *)
(*    identifier token carries its text; the offset the scanner reports    *)
(*    after a token is the number of bytes consumed so far.                *)
(*  - Go's int offsets are kept as two limbs, value = hi * 2^16 + lo with  *)
(*    0 <= lo < 2^16, so that offsets beyond 2^32 and the uint32           *)
(*    conversion of graph.go:162-163 are both representable.               *)
(*  - String concatenation a + "/" + b is the pair <<a, b>>.               *)
(*  - A path is the sequence of its components, "/" first when absolute.   *)
(***************************************************************************)
EXTENDS Integers, Sequences, FiniteSets, TLC

(* ------------------------------ bounds -------------------------------- *)

\* longest script of the single-file runs, in tokens
MaxToks == 3
\* tokens in all scripts together, in the runs over several files
MaxRunToks == 2
\* files listed in all units together, in the runs over several files
MaxFiles == 2

(* --------------------------- integers --------------------------------- *)

Limb == 2^16

\* a Go int with a small value n, 0 <= n < Limb
GoInt(n) == [hi |-> 0, lo |-> n]

\* x + y on Go ints
IntAdd(x, y) ==
    LET s == x.lo + y.lo
    IN  [hi |-> x.hi + y.hi + (s \div Limb), lo |-> s % Limb]

\* x - n on Go ints, n a string length (0 <= n < Limb); the result may be negative
IntSub(x, n) ==
    LET d == x.lo - n
    IN  [hi |-> x.hi + (d \div Limb), lo |-> d % Limb]

\* the conversion uint32(x): the low 32 bits of x
Uint32(x) == [hi |-> x.hi % Limb, lo |-> x.lo]

(* ---------------------------- tokens ---------------------------------- *)

Nothing == "Nothing"
IdentKind == "Ident"
OtherKind == "Other"

Function == [kind |-> IdentKind, text |-> "function"]
Foo == [kind |-> IdentKind, text |-> "foo"]
Ls == [kind |-> IdentKind, text |-> "ls"]
\* a one-byte token that is no identifier
Semi == [kind |-> OtherKind, text |-> ";"]
\* a token of 2^32 bytes that is no identifier (a quoted blob)
Blob == [kind |-> OtherKind, text |-> "blob"]

Vocabulary == {Function, Foo, Ls, Semi, Blob}
RunVocabulary == {Function, Foo, Ls}

\* the number of bytes of a token
TokLen(t) == IF t = Blob THEN [hi |-> Limb, lo |-> 0] ELSE GoInt(Len(t.text))

\* the offset the scanner reports after returning the token that follows
\* offset `off`: tokens are separated by one byte of white space
PosAfter(off, idx, t) ==
    IntAdd(IF idx = 0 THEN off ELSE IntAdd(off, GoInt(1)), TokLen(t))

(* ------------------------- command table ------------------------------ *)

manPages == ("ls" :> "man1p/ls.1p.txt") @@ ("echo" :> "man1p/echo.1p.txt")

(* ----------------------------- paths ---------------------------------- *)

Cwd == <<"/", "cur">>
FileA == <<"/", "w", "a.sh">>
FileB == <<"/", "w", "lib", "b.sh">>
FileNames == {FileA, FileB}

\* the symbolic links of the file system: /cur is a link to /w
Symlinks == (<<"/", "cur">> :> <<"/", "w">>)
\* the paths that exist
Existing == {<<"/">>, <<"/", "cur">>, <<"/", "w">>, <<"/", "w", "lib">>, FileA, FileB}

IsPrefix(p, q) == Len(p) <= Len(q) /\ SubSeq(q, 1, Len(p)) = p

evalSymlinks(path) ==
    IF path \notin Existing
    THEN path
    ELSE IF \E l \in DOMAIN Symlinks : IsPrefix(l, path)
         THEN LET l == CHOOSE k \in DOMAIN Symlinks : IsPrefix(k, path)
              IN  Symlinks[l] \o SubSeq(path, Len(l) + 1, Len(path))
         ELSE path

RECURSIVE CommonLen(_, _)
CommonLen(p, q) ==
    IF p = <<>> \/ q = <<>> \/ Head(p) # Head(q)
    THEN 0
    ELSE 1 + CommonLen(Tail(p), Tail(q))

\* filepath.ToSlash(filepath.Rel(base, targ)) for two absolute paths
Rel(base, targ) ==
    LET k    == CommonLen(base, targ)
        ups  == [i \in 1..(Len(base) - k) |-> ".."]
        rest == SubSeq(targ, k + 1, Len(targ))
    IN  IF ups \o rest = <<>> THEN <<".">> ELSE ups \o rest

relPath(base, path) == Rel(evalSymlinks(base), evalSymlinks(path))

(* ---------------------------- records --------------------------------- *)

\* makeRef that forgets the isDef it is given
makeRefNeverDef(filename, ident, offset, isDef) ==
    [ DefRepo     |-> "",
      DefUnitType |-> "BashDirectory",
      DefUnit     |-> "bash",
      DefPath     |-> <<filename, ident>>,
      UnitType    |-> "BashDirectory",
      Unit        |-> "bash",
      Def         |-> FALSE,
      File        |-> filename,
      Start       |-> Uint32(IntSub(offset, Len(ident))),
      End         |-> Uint32(offset) ]

makeRef(filename, ident, offset, isDef) ==
    [ DefRepo     |-> "",
      DefUnitType |-> "BashDirectory",
      DefUnit     |-> "bash",
      DefPath     |-> <<filename, ident>>,
      UnitType    |-> "BashDirectory",
      Unit        |-> "bash",
      Def         |-> isDef,
      File        |-> filename,
      Start       |-> Uint32(IntSub(offset, Len(ident))),
      End         |-> Uint32(offset) ]

makeDef(filename, ident, offset) ==
    [ UnitType |-> "BashDirectory",
      Unit     |-> "bash",
      Path     |-> <<filename, ident>>,
      Exported |-> TRUE,
      Data     |-> [Name |-> ident, Keyword |-> "function", Kind |-> "function"],
      Name     |-> ident,
      Kind     |-> "function",
      File     |-> filename,
      DefStart |-> Uint32(IntSub(offset, Len(ident))),
      DefEnd   |-> Uint32(offset) ]

\* makeCommandRef that measures the page name instead of the command
makeCommandRefPageLen(filename, command, page, offset) ==
    [ DefRepo     |-> "github.com/sourcegraph/man-pages-posix",
      DefUnitType |-> "ManPages",
      DefUnit     |-> "man",
      DefPath     |-> <<page, command>>,
      UnitType    |-> "BashDirectory",
      Unit        |-> "bash",
      Def         |-> FALSE,
      File        |-> filename,
      Start       |-> Uint32(IntSub(offset, Len(page))),
      End         |-> Uint32(offset) ]

makeCommandRef(filename, command, page, offset) ==
    [ DefRepo     |-> "github.com/sourcegraph/man-pages-posix",
      DefUnitType |-> "ManPages",
      DefUnit     |-> "man",
      DefPath     |-> <<page, command>>,
      UnitType    |-> "BashDirectory",
      Unit        |-> "bash",
      Def         |-> FALSE,
      File        |-> filename,
      Start       |-> Uint32(IntSub(offset, Len(command))),
      End         |-> Uint32(offset) ]

EmptyOutput == [Defs |-> <<>>, Refs |-> <<>>]

\* the test without the comparison of the text
IsDefSiteAnyIdent(pTok, pIdent) == pTok = IdentKind

\* the test of graph.go:131
IsDefSite(pTok, pIdent) == pTok = IdentKind /\ pIdent = "function"

\* the classification with the definition test before the table lookup
graphIdentDefFirst(out, filename, ident, offset, pTok, pIdent) ==
    IF pTok = IdentKind /\ pIdent = "function"
    THEN [ Defs |-> Append(out.Defs, makeDef(filename, ident, offset)),
           Refs |-> Append(out.Refs, makeRef(filename, ident, offset, TRUE)) ]
    ELSE IF ident \in DOMAIN manPages
         THEN [out EXCEPT !.Refs =
                   Append(@, makeCommandRef(filename, ident, manPages[ident], offset))]
         ELSE [out EXCEPT !.Refs = Append(@, makeRef(filename, ident, offset, FALSE))]

\* the classification that never makes a Definition of the keyword itself
graphIdentSkipKeyword(out, filename, ident, offset, pTok, pIdent) ==
    IF ident \in DOMAIN manPages
    THEN [out EXCEPT !.Refs =
              Append(@, makeCommandRef(filename, ident, manPages[ident], offset))]
    ELSE LET isDef == pTok = IdentKind /\ pIdent = "function" /\ ident # "function"
         IN  [ Defs |-> IF isDef
                        THEN Append(out.Defs, makeDef(filename, ident, offset))
                        ELSE out.Defs,
               Refs |-> Append(out.Refs, makeRef(filename, ident, offset, isDef)) ]

\* the classification that appends no Reference at a definition
graphIdentDefOnly(out, filename, ident, offset, pTok, pIdent) ==
    IF ident \in DOMAIN manPages
    THEN [out EXCEPT !.Refs =
              Append(@, makeCommandRef(filename, ident, manPages[ident], offset))]
    ELSE IF pTok = IdentKind /\ pIdent = "function"
         THEN [out EXCEPT !.Defs = Append(@, makeDef(filename, ident, offset))]
         ELSE [out EXCEPT !.Refs = Append(@, makeRef(filename, ident, offset, FALSE))]

\* the body of `case scanner.Ident` up to the two appends
graphIdent(out, filename, ident, offset, pTok, pIdent) ==
    IF ident \in DOMAIN manPages
    THEN [out EXCEPT !.Refs =
              Append(@, makeCommandRef(filename, ident, manPages[ident], offset))]
    ELSE LET isDef == IsDefSite(pTok, pIdent)
         IN  [ Defs |-> IF isDef
                        THEN Append(out.Defs, makeDef(filename, ident, offset))
                        ELSE out.Defs,
               Refs |-> Append(out.Refs, makeRef(filename, ident, offset, isDef)) ]

(* ----------------------------- state ---------------------------------- *)

VARIABLES
    units,      \* the decoded input: a sequence of units, each its Files list
    fs,         \* the scripts on disk: file name -> token sequence
    pc,         \* "execute", "graphUnits", "graphFile", "done", "fatal"
    ui, fi,     \* graphUnits: index of the unit and of the file in it
    sc,         \* graphFile: the scanner, tokens returned and offset
    prevTok,    \* graphFile: prevTok
    prevIdent,  \* graphFile: prevIdent
    output,     \* graphUnits: the graph.Output being filled
    calls,      \* the graphFile calls that returned: file name and error
    result,     \* what Execute returned: "none", "ok", "error", "fatal"
    stdout      \* what Execute wrote: <<>> or <<output>>

vars == <<units, fs, pc, ui, fi, sc, prevTok, prevIdent, output, calls, result, stdout>>

SeqsUpTo(S, n) == UNION {[1..k -> S] : k \in 0..n}

RECURSIVE Flatten(_)
Flatten(ss) == IF ss = <<>> THEN <<>> ELSE Head(ss) \o Flatten(Tail(ss))

RECURSIVE SumLen(_, _)
SumLen(f, S) ==
    IF S = {} THEN 0
    ELSE LET x == CHOOSE y \in S : TRUE IN Len(f[x]) + SumLen(f, S \ {x})

\* the lists of units with non-empty Files lists and at most MaxFiles files
UnitLists ==
    {us \in SeqsUpTo(SeqsUpTo(FileNames, MaxFiles) \ {<<>>}, MaxFiles) :
        Len(Flatten(us)) <= MaxFiles}

InitControl ==
    /\ pc = "execute"
    /\ ui = 1
    /\ fi = 1
    /\ sc = [idx |-> 0, off |-> GoInt(0)]
    /\ prevTok = Nothing
    /\ prevIdent = ""
    /\ output = EmptyOutput
    /\ calls = <<>>
    /\ result = "none"
    /\ stdout = <<>>

\* one unit with one script of up to MaxToks tokens
InitOneFile ==
    /\ \E f \in FileNames :
          /\ units = << <<f>> >>
          /\ \E c \in SeqsUpTo(Vocabulary, MaxToks) :
                fs = [g \in FileNames |-> IF g = f THEN c ELSE <<>>]
    /\ InitControl

\* any list of units over scripts of identifiers, MaxRunToks tokens in all
InitManyFiles ==
    /\ units \in UnitLists
    /\ fs \in {c \in [FileNames -> SeqsUpTo(RunVocabulary, MaxRunToks)] :
                  SumLen(c, FileNames) <= MaxRunToks}
    /\ InitControl

Init == InitOneFile \/ InitManyFiles

name == units[ui][fi]

(* ---------------------------- Execute --------------------------------- *)

\* graph.go:69-71: no unit in the input, log.Fatal
ExecuteNoUnits ==
    /\ pc = "execute"
    /\ Len(units) = 0
    /\ pc' = "fatal"
    /\ result' = "fatal"
    /\ UNCHANGED <<units, fs, ui, fi, sc, prevTok, prevIdent, output, calls, stdout>>

\* graph.go:73, 85: Execute calls graphUnits, which starts from an empty Output
ExecuteGraphUnits ==
    /\ pc = "execute"
    /\ Len(units) > 0
    /\ pc' = "graphUnits"
    /\ ui' = 1
    /\ fi' = 1
    /\ output' = EmptyOutput
    /\ UNCHANGED <<units, fs, sc, prevTok, prevIdent, calls, result, stdout>>

(* --------------------------- graphUnits ------------------------------- *)

\* what graphUnits does with the error graphFile returned: graph.go:89 drops it
\* and goes on with the next file
AfterGraphFile(err) == [pc |-> "graphUnits", fi |-> fi + 1, result |-> result]

Return(err) ==
    LET a == AfterGraphFile(err)
    IN  /\ calls' = Append(calls, [name |-> name, err |-> err])
        /\ pc' = a.pc
        /\ fi' = a.fi
        /\ result' = a.result

\* the files of unit ui are done: the next unit
NextUnit ==
    /\ pc = "graphUnits"
    /\ ui <= Len(units)
    /\ fi > Len(units[ui])
    /\ ui' = ui + 1
    /\ fi' = 1
    /\ UNCHANGED <<units, fs, pc, sc, prevTok, prevIdent, output, calls, result, stdout>>

\* the context left over from the file before
FileStartContextKept == [tok |-> prevTok, ident |-> prevIdent]

\* the context graphFile starts a file with: graph.go:105-106
FileStartContext == [tok |-> Nothing, ident |-> ""]

\* graphFile(f, &output): os.Open succeeds and the scanner is set up
OpenFile ==
    /\ pc = "graphUnits"
    /\ ui <= Len(units)
    /\ fi <= Len(units[ui])
    /\ pc' = "graphFile"
    /\ sc' = [idx |-> 0, off |-> GoInt(0)]
    /\ prevTok' = FileStartContext.tok
    /\ prevIdent' = FileStartContext.ident
    /\ UNCHANGED <<units, fs, ui, fi, output, calls, result, stdout>>

\* graphFile(f, &output): os.Open fails, graphFile returns the error
OpenError ==
    /\ pc = "graphUnits"
    /\ ui <= Len(units)
    /\ fi <= Len(units[ui])
    /\ Return("open")
    /\ UNCHANGED <<units, fs, ui, sc, prevTok, prevIdent, output, stdout>>

(* ---------------------------- graphFile ------------------------------- *)

toks == fs[name]

\* sc.Scan() returns an identifier
ScanIdent ==
    /\ pc = "graphFile"
    /\ sc.idx < Len(toks)
    /\ LET tok    == toks[sc.idx + 1]
           offset == PosAfter(sc.off, sc.idx, tok)
       IN  /\ tok.kind = IdentKind
           /\ sc' = [idx |-> sc.idx + 1, off |-> offset]
           /\ output' = graphIdent(output, name, tok.text, offset, prevTok, prevIdent)
           /\ prevTok' = tok.kind
           /\ prevIdent' = tok.text
    /\ UNCHANGED <<units, fs, pc, ui, fi, calls, result, stdout>>

\* sc.Scan() returns a token that is neither EOF nor an identifier
ScanOther ==
    /\ pc = "graphFile"
    /\ sc.idx < Len(toks)
    /\ LET tok == toks[sc.idx + 1]
       IN  /\ tok.kind # IdentKind
           /\ sc' = [idx |-> sc.idx + 1, off |-> PosAfter(sc.off, sc.idx, tok)]
    /\ UNCHANGED <<units, fs, pc, ui, fi, prevTok, prevIdent, output, calls, result, stdout>>

\* sc.Scan() returns EOF: break loop, return nil
ScanEOF ==
    /\ pc = "graphFile"
    /\ sc.idx = Len(toks)
    /\ Return("nil")
    /\ UNCHANGED <<units, fs, ui, sc, prevTok, prevIdent, output, stdout>>

\* a read error that drops what was accumulated
OutputOnScanErrorRollback(out) == EmptyOutput

\* the accumulator graphFile leaves behind when sc.Scan() fails: graph.go:110-112
\* returns without touching it
OutputOnScanError(out) == out

\* sc.Scan() returns a read error: graphFile returns it
ScanError ==
    /\ pc = "graphFile"
    /\ output' = OutputOnScanError(output)
    /\ Return("scan")
    /\ UNCHANGED <<units, fs, ui, sc, prevTok, prevIdent, stdout>>

(* ------------------------ Execute, the end ---------------------------- *)

\* graphUnits returns (&output, nil) and Execute encodes it to stdout
WriteOutput ==
    /\ pc = "graphUnits"
    /\ ui > Len(units)
    /\ pc' = "done"
    /\ stdout' = <<output>>
    /\ result' = "ok"
    /\ UNCHANGED <<units, fs, ui, fi, sc, prevTok, prevIdent, output, calls>>

\* graph.go:78-80: the encoder fails
WriteError ==
    /\ pc = "graphUnits"
    /\ ui > Len(units)
    /\ pc' = "done"
    /\ result' = "error"
    /\ UNCHANGED <<units, fs, ui, fi, sc, prevTok, prevIdent, output, calls, stdout>>

Next ==
    \/ ExecuteNoUnits
    \/ ExecuteGraphUnits
    \/ NextUnit
    \/ OpenFile
    \/ OpenError
    \/ ScanIdent
    \/ ScanOther
    \/ ScanEOF
    \/ ScanError
    \/ WriteOutput
    \/ WriteError

Spec == Init /\ [][Next]_vars

(* ======================= properties of the code ======================= *)

Defs == output.Defs
Refs == output.Refs

Last(s) == s[Len(s)]

ManPagesRepo == "github.com/sourcegraph/man-pages-posix"

\* the text of the last identifier among ts[1..i-1], "" when there is none
RECURSIVE LastIdentBefore(_, _)
LastIdentBefore(ts, i) ==
    IF i <= 1 THEN ""
    ELSE IF ts[i - 1].kind = IdentKind THEN ts[i - 1].text
         ELSE LastIdentBefore(ts, i - 1)

\* this step of graphFile handles an identifier token
IdentStep ==
    /\ pc = "graphFile"
    /\ sc'.idx = sc.idx + 1
    /\ toks[sc.idx + 1].kind = IdentKind

\* the identifier an IdentStep handles
StepText == toks[sc.idx + 1].text

DefAppended == Len(output'.Defs) = Len(Defs) + 1 /\ SubSeq(output'.Defs, 1, Len(Defs)) = Defs
RefAppended == Len(output'.Refs) = Len(Refs) + 1 /\ SubSeq(output'.Refs, 1, Len(Refs)) = Refs

\* graphFile has just handled the identifier toks[sc.idx]
AtIdent ==
    /\ pc = "graphFile"
    /\ sc.idx >= 1
    /\ toks[sc.idx].kind = IdentKind

(* ------------------------------- C1 ----------------------------------- *)

\* C1, as stated: an identifier that is a key of the command table and whose
\* previous identifier is `function` yields a Definition and a Reference with
\* Def = true, and no Reference into the man-pages corpus.
C1DefinitionPriority ==
    [][ (IdentStep /\ StepText \in DOMAIN manPages
            /\ LastIdentBefore(toks, sc.idx + 1) = "function")
        => /\ DefAppended
           /\ RefAppended
           /\ Last(output'.Refs).Def
           /\ Last(output'.Refs).DefRepo # ManPagesRepo ]_vars

\* C1, amended: an identifier that is a key of the command table yields exactly
\* one Reference, into the man-pages corpus and with Def = false, and no
\* Definition, also when its previous identifier is `function`: the table is
\* looked up first.
C1CommandTablePriority ==
    [][ (IdentStep /\ StepText \in DOMAIN manPages
            /\ LastIdentBefore(toks, sc.idx + 1) = "function")
        => /\ output'.Defs = Defs
           /\ RefAppended
           /\ ~ Last(output'.Refs).Def
           /\ Last(output'.Refs).DefRepo = ManPagesRepo
           /\ Last(output'.Refs).DefUnitType = "ManPages"
           /\ Last(output'.Refs).DefPath = <<manPages[StepText], StepText>>
           /\ Last(output'.Refs).File = name ]_vars

\* `function ls` has been handled
C1Witness ==
    /\ AtIdent
    /\ toks[sc.idx] = Ls
    /\ LastIdentBefore(toks, sc.idx) = "function"
    /\ Last(Refs).DefRepo = ManPagesRepo

(* ------------------------------- C2 ----------------------------------- *)

\* C2, as stated: an identifier gets a Definition if and only if the token
\* immediately before it is the identifier `function`.
C2DefIffImmediatelyAfterFunction ==
    [][ IdentStep
        => (DefAppended <=> (sc.idx >= 1 /\ toks[sc.idx] = Function)) ]_vars

\* C2, amended: an identifier gets a Definition if and only if it is no key of
\* the command table and the last identifier before it in the file is
\* `function`; tokens that are no identifiers in between change nothing.
C2DefIffAfterFunctionIdent ==
    [][ IdentStep
        => /\ DefAppended <=> (/\ StepText \notin DOMAIN manPages
                               /\ LastIdentBefore(toks, sc.idx + 1) = "function")
           /\ ~ DefAppended => output'.Defs = Defs
           /\ DefAppended => /\ Last(output'.Defs).Name = StepText
                             /\ Last(output'.Defs).File = name ]_vars

\* `function ; foo` has been handled and foo got a Definition
C2Witness ==
    /\ AtIdent
    /\ sc.idx = 3
    /\ toks = <<Function, Semi, Foo>>
    /\ Len(Defs) = 1
    /\ Defs[1].Name = "foo"


(* ------------------------------- C3 ----------------------------------- *)

\* C3, as stated: a token `function` is never emitted as a Definition nor as a
\* Reference into the man-pages corpus; of `function function foo` the only
\* Definition is foo.
C3KeywordNeverDefined ==
    /\ \A i \in DOMAIN Defs : Defs[i].Name # "function"
    /\ \A i \in DOMAIN Refs :
          Refs[i].DefPath[2] = "function" => Refs[i].DefRepo # ManPagesRepo

\* C3, amended: a token `function` is never emitted as a Reference into the
\* man-pages corpus, and it is emitted as a Definition exactly when the last
\* identifier before it in the file is `function` too; of the script
\* `function function foo` two Definitions are made, `function` and then `foo`.
C3KeywordDefinedAfterKeyword ==
    /\ [][ (IdentStep /\ StepText = "function")
           => /\ RefAppended
              /\ Last(output'.Refs).DefRepo # ManPagesRepo
              /\ Last(output'.Refs).DefPath = <<name, "function">>
              /\ DefAppended <=> LastIdentBefore(toks, sc.idx + 1) = "function"
              /\ DefAppended => Last(output'.Defs).Name = "function" ]_vars
    /\ [] ( (AtIdent /\ sc.idx = 3 /\ toks = <<Function, Function, Foo>>
                /\ Len(calls) = 0)
            => /\ Len(Defs) = 2
               /\ Defs[1].Name = "function"
               /\ Defs[2].Name = "foo" )

\* `function function foo` has been handled
C3Witness ==
    /\ AtIdent
    /\ sc.idx = 3
    /\ toks = <<Function, Function, Foo>>
    /\ Len(calls) = 0
    /\ Len(Defs) = 2

(* ------------------------------- C4 ----------------------------------- *)

DefKey(d) == <<d.File, d.DefStart, d.DefEnd>>
RefKey(r) == <<r.File, r.Start, r.End>>

\* the References with Def = true, in order
DefSiteRefs == SelectSeq(Refs, LAMBDA r : r.Def)

\* C4, as stated: each Definition has exactly one Reference with Def = true and
\* the same (File, Start, End), and each Reference with Def = true has such a
\* Definition.
C4ExactlyOneDefSiteRef ==
    /\ \A i \in DOMAIN Defs :
          Cardinality({j \in DOMAIN Refs :
                          Refs[j].Def /\ RefKey(Refs[j]) = DefKey(Defs[i])}) = 1
    /\ \A j \in DOMAIN Refs :
          Refs[j].Def => \E i \in DOMAIN Defs : DefKey(Defs[i]) = RefKey(Refs[j])

\* the files graphFile was called with so far, in order
FilesGraphed ==
    [i \in DOMAIN calls |-> calls[i].name]
        \o (IF pc = "graphFile" THEN <<name>> ELSE <<>>)

NoFileGraphedTwice ==
    \A i, j \in DOMAIN FilesGraphed : FilesGraphed[i] = FilesGraphed[j] => i = j

\* every script is shorter than 2^32 bytes
ScriptsBelow4G == \A f \in FileNames : \A i \in DOMAIN fs[f] : fs[f][i] # Blob

\* C4, amended: the Definitions and the References with Def = true correspond
\* one to one in order, the k-th Definition and the k-th such Reference having
\* the same (File, Start, End) and path; the Reference is the only one with
\* that (File, Start, End) when no file is graphed twice and every script is
\* shorter than 2^32 bytes.
C4DefSiteRefsMatchDefs ==
    /\ Len(DefSiteRefs) = Len(Defs)
    /\ \A k \in DOMAIN Defs :
          /\ RefKey(DefSiteRefs[k]) = DefKey(Defs[k])
          /\ DefSiteRefs[k].DefPath = Defs[k].Path
    /\ (NoFileGraphedTwice /\ ScriptsBelow4G) => C4ExactlyOneDefSiteRef

\* one script with a function definition has been graphed twice
C4Witness ==
    /\ Len(Defs) = 2
    /\ DefKey(Defs[1]) = DefKey(Defs[2])
    /\ ~ NoFileGraphedTwice

(* ------------------------------- C5 ----------------------------------- *)

SomeCallFailed == \E i \in DOMAIN calls : calls[i].err # "nil"

\* C5, as stated: when a file cannot be opened or its scan hits a read error,
\* no later file is opened or scanned, and Execute returns an error instead of
\* writing a graph.
C5FailureStopsTheRun ==
    /\ \A i \in DOMAIN calls : calls[i].err # "nil" => i = Len(calls)
    /\ (pc = "graphFile") => ~ SomeCallFailed
    /\ (pc = "done" /\ SomeCallFailed) => (result = "error" /\ stdout = <<>>)


(* ------------------------------- C6 ----------------------------------- *)

FilesListed == {Flatten(units)[i] : i \in DOMAIN Flatten(units)}

\* C6, as stated: in the graph that is written, the File of every Definition
\* and Reference is the path of its source file made relative to the working
\* directory by relPath, not the absolute path of the unit's Files list.
C6FilesRelativeToCwd ==
    \A k \in DOMAIN stdout :
        /\ \A i \in DOMAIN stdout[k].Refs :
              /\ stdout[k].Refs[i].File \notin FilesListed
              /\ \E f \in FilesListed : stdout[k].Refs[i].File = relPath(Cwd, f)
        /\ \A i \in DOMAIN stdout[k].Defs :
              /\ stdout[k].Defs[i].File \notin FilesListed
              /\ \E f \in FilesListed : stdout[k].Defs[i].File = relPath(Cwd, f)

(* ------------------------------- C7 ----------------------------------- *)

\* the identifiers of the tokens ts[i..] of file f, the scanner being at `off`
\* after i - 1 tokens: file, text and uint32 end offset of each, in order
RECURSIVE IdentsFrom(_, _, _, _)
IdentsFrom(f, ts, i, off) ==
    IF i > Len(ts) THEN <<>>
    ELSE LET o == PosAfter(off, i - 1, ts[i])
         IN  (IF ts[i].kind = IdentKind
              THEN << <<f, ts[i].text, Uint32(o)>> >>
              ELSE <<>>)
             \o IdentsFrom(f, ts, i + 1, o)

RECURSIVE IdentsOfFiles(_)
IdentsOfFiles(fl) ==
    IF fl = <<>> THEN <<>>
    ELSE IdentsFrom(Head(fl), fs[Head(fl)], 1, GoInt(0)) \o IdentsOfFiles(Tail(fl))

\* graphUnits has returned
GraphUnitsDone == pc = "done" \/ (pc = "graphUnits" /\ ui > Len(units))

RefIdent(r) == <<r.File, r.DefPath[2], r.End>>
DefIdent(d) == <<d.File, d.Name, d.DefEnd>>

\* C7: when graphUnits is done and no file failed, Refs holds one Reference per
\* identifier token, units in input order, files in the order of each unit's
\* list, tokens in the order of the file; Defs is in the same order.
C7OneRefPerIdentInOrder ==
    (GraphUnitsDone /\ ~ SomeCallFailed)
    => /\ [i \in DOMAIN Refs |-> RefIdent(Refs[i])] = IdentsOfFiles(Flatten(units))
       /\ [i \in DOMAIN Defs |-> DefIdent(Defs[i])]
             = [i \in DOMAIN DefSiteRefs |-> RefIdent(DefSiteRefs[i])]

\* two units of one script each have been graphed, both with an identifier
C7Witness ==
    /\ pc = "done"
    /\ ~ SomeCallFailed
    /\ Len(units) = 2
    /\ units[1] # units[2]
    /\ Len(Refs) = 2
    /\ Refs[1].File # Refs[2].File

(* ------------------------------- C8 ----------------------------------- *)

\* the last Reference, and the last Definition when that Reference is its
\* site, span exactly the identifier just scanned and end at offset `off`
LastSpansIdent(off) ==
    LET r == Last(Refs)
        n == GoInt(Len(toks[sc.idx].text))
    IN  /\ r.End = off
        /\ IntAdd(r.Start, n) = r.End
        /\ r.Def => /\ Last(Defs).DefEnd = off
                    /\ IntAdd(Last(Defs).DefStart, n) = Last(Defs).DefEnd

\* C8, as stated: every Definition and Reference has End equal to the offset
\* the scanner reports after the token, and End - Start equal to the length of
\* the identifier with Start >= 0, for every token stream.
C8SpanIsIdentifier == AtIdent => LastSpansIdent(sc.off)

\* C8, amended: the same, for every token that ends below offset 2^32; beyond,
\* uint32(offset) keeps the low 32 bits only.
C8SpanIsIdentifierBelow4G ==
    (AtIdent /\ sc.off.hi < Limb) => LastSpansIdent(sc.off)

\* a definition at the very start of its span: `function foo`, and an
\* identifier that starts at offset 0
C8Witness ==
    /\ AtIdent
    /\ sc.off.hi < Limb
    /\ Last(Refs).Def
    /\ Refs[1].Start = GoInt(0)

(* ------------------------------- C9 ----------------------------------- *)

\* this step is graphFile returning a read error of the scanner
ScanErrorStep ==
    /\ pc = "graphFile"
    /\ calls' = Append(calls, [name |-> name, err |-> "scan"])

\* C9: on a read error graphFile stops the file at once, and everything
\* appended before, from this file and from earlier ones, stays as it is; the
\* accumulator only ever grows at its end.
C9ScanErrorKeepsOutput ==
    /\ [][ ScanErrorStep => (output' = output /\ pc' # "graphFile") ]_vars
    /\ [][ /\ IsPrefix(Defs, output'.Defs)
           /\ IsPrefix(Refs, output'.Refs) ]_vars

\* a read error in the middle of a script, after a Reference was appended
C9Witness ==
    /\ pc = "graphUnits"
    /\ Len(calls) >= 1
    /\ Last(calls).err = "scan"
    /\ sc.idx >= 1
    /\ sc.idx < Len(fs[Last(calls).name])
    /\ Len(Refs) >= 1
    /\ Last(Refs).File = Last(calls).name

(* ------------------------------ C10 ----------------------------------- *)

\* C10: the context is the last identifier scanned in this file, none at the
\* start of every file; the first identifier of a file gets no Definition,
\* whatever the file before ended with.
C10ContextPerFile ==
    /\ [] ( pc = "graphFile"
            => /\ prevIdent = LastIdentBefore(toks, sc.idx + 1)
               /\ prevTok = IF \E i \in 1..sc.idx : toks[i].kind = IdentKind
                            THEN IdentKind ELSE Nothing )
    /\ [][ (IdentStep /\ LastIdentBefore(toks, sc.idx + 1) = "")
           => output'.Defs = Defs ]_vars

\* the file before ended with `function`, and the first identifier of this
\* file has been handled
C10Witness ==
    /\ AtIdent
    /\ sc.idx = 1
    /\ toks[1] = Foo
    /\ Len(calls) >= 1
    /\ Last(calls).err = "nil"
    /\ fs[Last(calls).name] # <<>>
    /\ Last(fs[Last(calls).name]) = Function
    /\ Defs = <<>>


====
